---- MODULE Spec2Model ----
(***************************************************************************)
(* Model of Analysis_Script.py: the ns-3 experiment campaign.              *)
(*                                                                         *)
(* The script checks its directories, then runs three sweep generators     *)
(* (gather_baselines, gather_attack_variants, gather_threshold_tests),     *)
(* each calling execute_ns3 once per configuration.  execute_ns3 builds a  *)
(* command line, runs the simulator synchronously and parses three CSV     *)
(* files that the simulator leaves at fixed paths.  The tables are then    *)
(* saved, plotted and summarised.                                          *)
(*                                                                         *)
(* The simulator and the file system are the environment: the outcome of   *)
(* each invocation is chosen nondeterministically from Outcomes.           *)
(***************************************************************************)
EXTENDS Integers, Sequences, FiniteSets, TLC

VARIABLES
    pc,             \* position of the script
    i,              \* loop index of the running sweep (1-based)
    root,           \* NS3_ROOT exists
    scratch,        \* SCRATCH_DIR exists
    code_file,      \* scratch/dioneighbour.cc exists
    outdir,         \* OUTPUT_DIR exists
    root_at_start,  \* NS3_ROOT existed when the script started
    report,         \* the error report printed, "none" if none
    exc,            \* the exception that ended the script, "none" if none
    files,          \* the three result files under NS3_ROOT/results
    cfg,            \* the arguments of the last execute_ns3 call
    command,        \* the command line built by the last execute_ns3 call
    log,            \* one entry per external invocation, in order
    out,            \* the value returned by the last execute_ns3 call
    records,        \* gather_baselines' list
    combined,       \* gather_attack_variants' list
    collected,      \* gather_threshold_tests' list
    ret,            \* the generators that have returned to main
    saved,          \* the campaign outputs written so far
    simMode,        \* how the simulator behaved at its last invocation
    switches        \* how often the simulator changed its behaviour

vars == <<pc, i, root, scratch, code_file, outdir, root_at_start, report, exc,
          files, cfg, command, log, out, records, combined, collected,
          ret, saved, simMode, switches>>

---------------------------------------------------------------------------
(* Bounds of the model *)

\* The simulator changes its behaviour at most this often during a campaign.
MaxSwitches == 1

---------------------------------------------------------------------------
(* Program constants *)

rates == <<150, 300, 500, 700, 900, 1100>>
limits == <<5, 15, 25, 35, 50, 70>>

DefaultRate == 700
DefaultLimit == 25
DefaultNodes == 25
DefaultDuration == 120
InsecLimit == 999999999
ThreshRate == 700
AttackerPkt == 120
MsPerSecond == 1000

\* win=1.2, as whole part and tenths
DefaultWin == <<1, 2>>

---------------------------------------------------------------------------
(* Values read from a CSV cell: a number, or text that is not a number.    *)
(* <<"num", n>> is the number n; <<"str", k>> is a text repeated k times.  *)

Num(n) == <<"num", n>>
Text == <<"str", 1>>
IsNumeric(v) == v[1] = "num"

\* Python's v * k: arithmetic on a number, repetition on a str.
Times(v, k) == <<v[1], v[2] * k>>

\* format(v, ".3f") raises ValueError on a str.
FormatRaises(v) == ~IsNumeric(v)

\* int(v) raises ValueError on a str that is no integer literal.
IntRaises(v) == ~IsNumeric(v)

---------------------------------------------------------------------------
(* The three result files.  A file that exists has a header (a set of      *)
(* column names) and, if hasRow, a first data row.                         *)

PdrCols == {"pdr", "tx", "rx"}
DelayCols == {"avg_delay_s"}
OverCols == {"control_tx", "control_rx", "control_dropped"}
FileNames == {"pdr", "delay", "overhead"}

Required(f) ==
    CASE f = "pdr" -> PdrCols
      [] f = "delay" -> DelayCols
      [] f = "overhead" -> OverCols

Missing == [exists |-> FALSE, header |-> {}, hasRow |-> FALSE, row |-> <<>>]

\* A well-formed file whose first row holds v in every column.
Written(f, v) ==
    [exists |-> TRUE, header |-> Required(f), hasRow |-> TRUE,
     row |-> [c \in Required(f) |-> v]]

\* pd.read_csv(path)[col].iloc[0] raises FileNotFoundError, EmptyDataError,
\* KeyError or IndexError; otherwise it yields the cell, text included.
CellRaises(fs, f, col) ==
    \/ ~fs[f].exists
    \/ fs[f].header = {}
    \/ col \notin fs[f].header
    \/ ~fs[f].hasRow

Cell(fs, f, col) == fs[f].row[col]

---------------------------------------------------------------------------
(* execute_ns3: the command line *)

Param(k, v) == [k |-> k, v |-> v]

FormatFloat(w) == ToString(w[1]) \o "." \o ToString(w[2])

Args(attack, attack_rate, limit) ==
    [attack |-> attack, attack_rate |-> attack_rate, limit |-> limit,
     node_count |-> DefaultNodes, win |-> DefaultWin, duration |-> DefaultDuration]

\* A variant of BuildCommand that passes the threshold in both branches.
BuildCommandThresholdAlways(a) ==
    IF a.attack
    THEN << Param("attack", "true"),
            Param("attackerPps", ToString(a.attack_rate)),
            Param("attackerPkt", ToString(AttackerPkt)),
            Param("threshold", ToString(a.limit)),
            Param("windowSec", FormatFloat(a.win)),
            Param("nNodes", ToString(a.node_count)),
            Param("area", "60"),
            Param("rateKbps", "16"),
            Param("simTime", ToString(a.duration)) >>
    ELSE << Param("attack", "false"),
            Param("threshold", ToString(a.limit)),
            Param("nNodes", ToString(a.node_count)),
            Param("area", "60"),
            Param("rateKbps", "16"),
            Param("simTime", ToString(a.duration)) >>

BuildCommand(a) ==
    IF a.attack
    THEN << Param("attack", "true"),
            Param("attackerPps", ToString(a.attack_rate)),
            Param("attackerPkt", ToString(AttackerPkt)),
            Param("threshold", ToString(a.limit)),
            Param("windowSec", FormatFloat(a.win)),
            Param("nNodes", ToString(a.node_count)),
            Param("area", "60"),
            Param("rateKbps", "16"),
            Param("simTime", ToString(a.duration)) >>
    ELSE << Param("attack", "false"),
            Param("nNodes", ToString(a.node_count)),
            Param("area", "60"),
            Param("rateKbps", "16"),
            Param("simTime", ToString(a.duration)) >>

---------------------------------------------------------------------------
(* execute_ns3: parsing the result files.  None is <<>>, a record r is     *)
(* <<r>>.                                                                  *)

None == <<>>

ResultCols ==
    { <<"pdr", "pdr">>, <<"pdr", "tx">>, <<"pdr", "rx">>,
      <<"delay", "avg_delay_s">>,
      <<"overhead", "control_tx">>, <<"overhead", "control_rx">>,
      <<"overhead", "control_dropped">> }

ParseRaises(fs) == \E fc \in ResultCols : CellRaises(fs, fc[1], fc[2])

ParseRecord(fs) ==
    [pdr |-> Cell(fs, "pdr", "pdr"),
     tx |-> Cell(fs, "pdr", "tx"),
     rx |-> Cell(fs, "pdr", "rx"),
     delay_ms |-> Times(Cell(fs, "delay", "avg_delay_s"), MsPerSecond),
     ctrl_tx |-> Cell(fs, "overhead", "control_tx"),
     ctrl_rx |-> Cell(fs, "overhead", "control_rx"),
     ctrl_dropped |-> Cell(fs, "overhead", "control_dropped")]

\* The value execute_ns3 returns for exit code rc and result files fs.
ExecuteResult(rc, fs) ==
    IF rc # 0 THEN None
    ELSE IF ParseRaises(fs) THEN None
    ELSE <<ParseRecord(fs)>>

\* Python's truth value of the returned value: None and {} are false.
Truthy(res) == res # None

---------------------------------------------------------------------------
(* pd.DataFrame(list of dicts): one row per dict, in order; the columns    *)
(* are the union of the dicts' keys, a missing key is filled with NaN.     *)

NaN == <<"nan", 0>>

Columns(lst) == UNION { DOMAIN lst[k] : k \in 1..Len(lst) }

DataFrame(lst) ==
    LET cols == Columns(lst)
    IN  [k \in 1..Len(lst) |->
            [c \in cols |-> IF c \in DOMAIN lst[k] THEN lst[k][c] ELSE NaN]]

Empty(df) == Len(df) = 0

\* df.loc[df["scenario"] == label]: the rows of that label, in order.
RowsOf(df, label) == SelectSeq(df, LAMBDA r : r.scenario = label)

HasLabel(df, label) == \E k \in 1..Len(df) : df[k].scenario = label

HasText(df, col) == \E k \in 1..Len(df) : ~IsNumeric(df[k][col])

---------------------------------------------------------------------------
(* The simulator.  Invocation n of a campaign that behaves well rewrites   *)
(* the three files with rows of its own, written here as the number n.     *)

Outcomes ==
    { "ok",          \* exit 0, the three files rewritten
      "exit1",       \* non-zero exit, the files left as they were
      "stale",       \* exit 0, the files left as they were
      "missing",     \* exit 0, the overhead file absent
      "nocolumn",    \* exit 0, the pdr file without its rx column
      "norow",       \* exit 0, the delay file with a header only
      "text_pdr",    \* exit 0, the pdr column holds text
      "text_delay" } \* exit 0, the avg_delay_s column holds text

ExitCode(o) == IF o = "exit1" THEN 1 ELSE 0

Fresh(n) == [f \in FileNames |-> Written(f, Num(n))]

SimRun(o, fs, n) ==
    CASE o \in {"exit1", "stale"} -> fs
      [] o = "ok" -> Fresh(n)
      [] o = "missing" -> [Fresh(n) EXCEPT !["overhead"] = Missing]
      [] o = "nocolumn" ->
            [Fresh(n) EXCEPT !["pdr"] =
                [exists |-> TRUE, header |-> {"pdr", "tx"}, hasRow |-> TRUE,
                 row |-> [c \in {"pdr", "tx"} |-> Num(n)]]]
      [] o = "norow" ->
            [Fresh(n) EXCEPT !["delay"] =
                [exists |-> TRUE, header |-> DelayCols, hasRow |-> FALSE,
                 row |-> <<>>]]
      [] o = "text_pdr" -> [Fresh(n) EXCEPT !["pdr"].row["pdr"] = Text]
      [] o = "text_delay" ->
            [Fresh(n) EXCEPT !["delay"].row["avg_delay_s"] = Text]

---------------------------------------------------------------------------
(* Initial states: the script has not started.  The scratch directory      *)
(* lies under the root, the source file under scratch, the output          *)
(* directory under the root; the results directory holds no file yet.      *)

Init ==
    /\ pc = "module"
    /\ i = 1
    /\ root \in BOOLEAN
    /\ scratch \in IF root THEN BOOLEAN ELSE {FALSE}
    /\ code_file \in IF scratch THEN BOOLEAN ELSE {FALSE}
    /\ outdir \in IF root THEN BOOLEAN ELSE {FALSE}
    /\ root_at_start = root
    /\ report = "none"
    /\ exc = "none"
    /\ files = [f \in FileNames |-> Missing]
    /\ cfg = Args(FALSE, DefaultRate, DefaultLimit)
    /\ command = <<>>
    /\ log = <<>>
    /\ out = None
    /\ records = <<>>
    /\ combined = <<>>
    /\ collected = <<>>
    /\ ret = {}
    /\ saved = {}
    /\ simMode \in Outcomes
    /\ switches = 0

---------------------------------------------------------------------------
(* Module level, lines 18-29 *)

fsVars == <<root, scratch, code_file, outdir, root_at_start>>
runVars == <<files, cfg, command, log, out, simMode, switches>>
listVars == <<records, combined, collected>>
mainVars == <<ret, saved>>

\* os.makedirs(OUTPUT_DIR, exist_ok=True) cannot create a directory.
MakedirsFails ==
    /\ pc = "module"
    /\ ~outdir
    /\ pc' = "crash"
    /\ exc' = "makedirs"
    /\ UNCHANGED <<i, fsVars, report, runVars, listVars, mainVars>>

\* makedirs creates OUTPUT_DIR and every missing parent, NS3_ROOT included;
\* then the two existence checks run.
ModuleLevel ==
    /\ pc = "module"
    /\ root' = TRUE
    /\ outdir' = TRUE
    /\ IF ~root' THEN /\ report' = "root"
                      /\ pc' = "exit"
       ELSE IF ~scratch THEN /\ report' = "scratch"
                             /\ pc' = "exit"
       ELSE /\ report' = report
            /\ pc' = "main"
    /\ UNCHANGED <<i, scratch, code_file, root_at_start, exc, runVars,
                   listVars, mainVars>>

\* main, lines 365-378: the simulation source must exist.
MainCheck ==
    /\ pc = "main"
    /\ IF ~code_file THEN /\ report' = "code"
                          /\ pc' = "returned"
       ELSE /\ report' = report
            /\ pc' = "baseline_rpl"
    /\ UNCHANGED <<i, fsVars, exc, runVars, listVars, mainVars>>

---------------------------------------------------------------------------
(* execute_ns3, lines 34-72: build the command, run the simulator to its   *)
(* end, parse the three files.  o is what the simulator does this time.    *)

Invoke(a, o) ==
    /\ o = simMode \/ switches < MaxSwitches
    /\ simMode' = o
    /\ switches' = IF o = simMode THEN switches ELSE switches + 1
    /\ cfg' = a
    /\ command' = BuildCommand(a)
    /\ files' = SimRun(o, files, Len(log) + 1)
    /\ out' = ExecuteResult(ExitCode(o), files')
    /\ log' = Append(log, [args |-> a, rc |-> ExitCode(o), out |-> out'])

\* A variant of Keep that inserts at the front of the list.
KeepAtFront(lst, res, tags) ==
    IF Truthy(res) THEN <<tags @@ res[1]>> \o lst ELSE lst

\* if out: out[...] = ...; lst.append(out)
Keep(lst, res, tags) ==
    IF Truthy(res) THEN Append(lst, tags @@ res[1]) ELSE lst

\* if out: print(f"... {out['pdr']:.3f}")
PrintRaises(res) == Truthy(res) /\ FormatRaises(res[1].pdr)

Label(s) == "scenario" :> s

---------------------------------------------------------------------------
(* gather_baselines, lines 77-109 *)

BaselineRPL ==
    /\ pc = "baseline_rpl"
    /\ \E o \in Outcomes : Invoke(Args(FALSE, DefaultRate, DefaultLimit), o)
    /\ records' = Keep(records, out', Label("RPL"))
    /\ IF PrintRaises(out') THEN pc' = "crash" /\ exc' = "print"
       ELSE pc' = "baseline_insec" /\ exc' = exc
    /\ UNCHANGED <<i, fsVars, report, combined, collected, mainVars>>

BaselineInsec ==
    /\ pc = "baseline_insec"
    /\ \E o \in Outcomes : Invoke(Args(TRUE, DefaultRate, InsecLimit), o)
    /\ records' = Keep(records, out', Label("InsecRPL"))
    /\ IF PrintRaises(out') THEN pc' = "crash" /\ exc' = "print"
       ELSE pc' = "baseline_sec" /\ exc' = exc
    /\ UNCHANGED <<i, fsVars, report, combined, collected, mainVars>>

BaselineSec ==
    /\ pc = "baseline_sec"
    /\ \E o \in Outcomes : Invoke(Args(TRUE, DefaultRate, DefaultLimit), o)
    /\ records' = Keep(records, out', Label("SecRPL"))
    /\ IF PrintRaises(out')
       THEN /\ pc' = "crash"
            /\ exc' = "print"
            /\ ret' = ret
       ELSE /\ pc' = "rate_insec"
            /\ exc' = exc
            /\ ret' = ret \cup {"base"}
    /\ i' = 1
    /\ UNCHANGED <<fsVars, report, combined, collected, saved>>

---------------------------------------------------------------------------
(* gather_attack_variants, lines 114-149 *)

RateTags(s, r) == Label(s) @@ ("attack_pps" :> r)

\* A variant of RefCopies that stops one rate short.
RefCopiesOneShort(ref) ==
    [k \in 1..(Len(rates) - 1) |-> RateTags("RPL", rates[k]) @@ ref]

\* for r in rates: temp = ref.copy(); temp[...] = ...; combined.append(temp)
RefCopies(ref) == [k \in 1..Len(rates) |-> RateTags("RPL", rates[k]) @@ ref]

RateInsec ==
    /\ pc = "rate_insec"
    /\ \E o \in Outcomes : Invoke(Args(TRUE, rates[i], InsecLimit), o)
    /\ combined' = Keep(combined, out', RateTags("InsecRPL", rates[i]))
    /\ pc' = "rate_sec"
    /\ UNCHANGED <<i, fsVars, report, exc, records, collected, mainVars>>

RateSec ==
    /\ pc = "rate_sec"
    /\ \E o \in Outcomes : Invoke(Args(TRUE, rates[i], DefaultLimit), o)
    /\ combined' = Keep(combined, out', RateTags("SecRPL", rates[i]))
    /\ IF i < Len(rates) THEN i' = i + 1 /\ pc' = "rate_insec"
       ELSE i' = i /\ pc' = "rate_ref"
    /\ UNCHANGED <<fsVars, report, exc, records, collected, mainVars>>

RateRef ==
    /\ pc = "rate_ref"
    /\ \E o \in Outcomes : Invoke(Args(FALSE, DefaultRate, DefaultLimit), o)
    /\ combined' = IF Truthy(out') THEN combined \o RefCopies(out'[1])
                   ELSE combined
    /\ ret' = ret \cup {"rate"}
    /\ pc' = "threshold"
    /\ i' = 1
    /\ UNCHANGED <<fsVars, report, exc, records, collected, saved>>

---------------------------------------------------------------------------
(* gather_threshold_tests, lines 154-172 *)

ThreshTags(lim) == Label("SecRPL") @@ ("threshold" :> lim)

Threshold ==
    /\ pc = "threshold"
    /\ \E o \in Outcomes : Invoke(Args(TRUE, ThreshRate, limits[i]), o)
    /\ collected' = Keep(collected, out', ThreshTags(limits[i]))
    /\ IF PrintRaises(out')
       THEN /\ pc' = "crash"
            /\ exc' = "print"
            /\ UNCHANGED <<i, ret>>
       ELSE IF i < Len(limits)
       THEN /\ pc' = "threshold"
            /\ i' = i + 1
            /\ UNCHANGED <<exc, ret>>
       ELSE /\ pc' = "save"
            /\ ret' = ret \cup {"thresh"}
            /\ UNCHANGED <<i, exc>>
    /\ UNCHANGED <<fsVars, report, records, combined, saved>>

---------------------------------------------------------------------------
(* main, lines 380-386.  Each generator returns pd.DataFrame of its list;  *)
(* main's three tables are those values once the generator is in ret, and  *)
(* nothing changes them afterwards.  The three tables are then written.    *)

base_df == DataFrame(records)
rate_df == DataFrame(combined)
thresh_df == DataFrame(collected)

Save ==
    /\ pc = "save"
    /\ saved' = saved \cup {"baseline.csv", "attack_rate.csv", "thresholds.csv"}
    /\ pc' = "graphs"
    /\ UNCHANGED <<i, fsVars, report, exc, runVars, listVars, ret>>

---------------------------------------------------------------------------
(* make_graphs, lines 177-270.  Figures 1-3 plot ctrl_rx, pdr and delay_ms *)
(* of the rate table, figure 4 the threshold table with the two baseline   *)
(* lines.  Plotting a column that holds text may or may not raise inside   *)
(* matplotlib; .iloc[0] on an empty selection raises IndexError.           *)

FigName(k) ==
    CASE k = 1 -> "dao_overhead.png"
      [] k = 2 -> "pdr_vs_attack.png"
      [] k = 3 -> "delay_vs_attack.png"
      [] k = 4 -> "pdr_vs_threshold.png"

FigCol(k) ==
    CASE k = 1 -> "ctrl_rx"
      [] k = 2 -> "pdr"
      [] k = 3 -> "delay_ms"

Attempted(k, b, r, t) == IF k <= 3 THEN ~Empty(r) ELSE ~Empty(t)

\* baseline_df.loc[baseline_df["scenario"] == label, "pdr"].iloc[0]
FirstOfRaises(df, label) == Len(RowsOf(df, label)) = 0

MustRaise(k, b, r, t) ==
    /\ k = 4
    /\ ~Empty(t)
    /\ ~Empty(b)
    /\ FirstOfRaises(b, "RPL") \/ FirstOfRaises(b, "InsecRPL")

MayRaise(k, b, r, t) ==
    \/ MustRaise(k, b, r, t)
    \/ k <= 3 /\ ~Empty(r) /\ HasText(r, FigCol(k))
    \/ k = 4 /\ ~Empty(t) /\ HasText(t, "pdr")
    \/ k = 4 /\ ~Empty(t) /\ ~Empty(b) /\ HasText(b, "pdr")

\* The figures at which make_graphs can stop with an exception; 0: at none.
GraphStops(b, r, t) ==
    { k \in 0..4 :
        /\ \A j \in 1..4 : (k = 0 \/ j < k) => ~MustRaise(j, b, r, t)
        /\ k # 0 => MayRaise(k, b, r, t) }

FiguresBefore(k, b, r, t) ==
    { FigName(j) : j \in { n \in 1..4 : (k = 0 \/ n < k) /\ Attempted(n, b, r, t) } }

MakeGraphs ==
    /\ pc = "graphs"
    /\ \E k \in GraphStops(base_df, rate_df, thresh_df) :
          /\ saved' = saved \cup FiguresBefore(k, base_df, rate_df, thresh_df)
          /\ IF k = 0 THEN pc' = "chart" /\ exc' = exc
             ELSE pc' = "crash" /\ exc' = "make_graphs"
    /\ UNCHANGED <<i, fsVars, report, runVars, listVars, ret>>

---------------------------------------------------------------------------
(* make_comparison_chart, lines 275-336: bars of pdr, delay_ms and ctrl_rx *)
(* of every baseline row, each labelled with its formatted value.          *)

ChartRaises(b) ==
    \E k \in 1..Len(b) :
        \/ FormatRaises(b[k].pdr)
        \/ FormatRaises(b[k].delay_ms)
        \/ IntRaises(b[k].ctrl_rx)

MakeComparisonChart ==
    /\ pc = "chart"
    /\ IF Empty(base_df)
       THEN pc' = "summary" /\ UNCHANGED <<saved, exc>>
       ELSE IF ChartRaises(base_df)
       THEN pc' = "crash" /\ exc' = "make_comparison_chart" /\ saved' = saved
       ELSE /\ pc' = "summary"
            /\ saved' = saved \cup {"comparison_overview.png"}
            /\ exc' = exc
    /\ UNCHANGED <<i, fsVars, report, runVars, listVars, ret>>

---------------------------------------------------------------------------
(* summarize_results, lines 342-360 *)

SummaryRaises(b) ==
    /\ ~Empty(b)
    /\ HasLabel(b, "SecRPL") /\ HasLabel(b, "InsecRPL")
    /\ \/ ~IsNumeric(RowsOf(b, "InsecRPL")[1].pdr)
       \/ ~IsNumeric(RowsOf(b, "SecRPL")[1].pdr)
       \/ IntRaises(RowsOf(b, "SecRPL")[1].ctrl_dropped)

SummarizeResults ==
    /\ pc = "summary"
    /\ IF SummaryRaises(base_df)
       THEN pc' = "crash" /\ exc' = "summarize_results"
       ELSE pc' = "done" /\ exc' = exc
    /\ UNCHANGED <<i, fsVars, report, runVars, listVars, mainVars>>

---------------------------------------------------------------------------

Next ==
    \/ MakedirsFails
    \/ ModuleLevel
    \/ MainCheck
    \/ BaselineRPL
    \/ BaselineInsec
    \/ BaselineSec
    \/ RateInsec
    \/ RateSec
    \/ RateRef
    \/ Threshold
    \/ Save
    \/ MakeGraphs
    \/ MakeComparisonChart
    \/ SummarizeResults

Spec == Init /\ [][Next]_vars

---------------------------------------------------------------------------
(* execute_ns3's command line as a function of its arguments: every        *)
(* argument is drawn from a small set, and the one step builds the         *)
(* command.                                                                *)

RateValues == {0, 150, 700, 1100}
LimitValues == {0, 5, 25, 999999999}
NodeValues == {10, 25}
DurationValues == {60, 120}
WinValues == {<<1, 2>>, <<2, 5>>}

ArgSets ==
    [attack : BOOLEAN, attack_rate : RateValues, limit : LimitValues,
     node_count : NodeValues, win : WinValues, duration : DurationValues]

InitCommand ==
    /\ pc = "execute_ns3"
    /\ cfg \in ArgSets
    /\ command = <<>>
    /\ i = 1
    /\ root = TRUE
    /\ scratch = TRUE
    /\ code_file = TRUE
    /\ outdir = TRUE
    /\ root_at_start = TRUE
    /\ report = "none"
    /\ exc = "none"
    /\ files = [f \in FileNames |-> Missing]
    /\ log = <<>>
    /\ out = None
    /\ records = <<>>
    /\ combined = <<>>
    /\ collected = <<>>
    /\ ret = {}
    /\ saved = {}
    /\ simMode = "ok"
    /\ switches = 0

BuildStep ==
    /\ pc = "execute_ns3"
    /\ command' = BuildCommand(cfg)
    /\ pc' = "built"
    /\ UNCHANGED <<i, fsVars, report, exc, files, cfg, log, out, simMode,
                   switches, listVars, mainVars>>

SpecCommand == InitCommand /\ [][BuildStep]_vars

---------------------------------------------------------------------------
(* Vocabulary of the properties *)

ResultFields ==
    {"pdr", "tx", "rx", "delay_ms", "ctrl_tx", "ctrl_rx", "ctrl_dropped"}

Fields(row) == [c \in ResultFields |-> row[c]]

AllNumeric(r) == \A c \in ResultFields : IsNumeric(r[c])

\* The failure conditions of a run: non-zero exit, or a file that is
\* missing, lacks a required column, has no data row, or holds a value that
\* is not a number in a required column of its first row.
FailureCondition(rc, fs) ==
    \/ rc # 0
    \/ \E f \in FileNames :
          \/ ~fs[f].exists
          \/ ~(Required(f) \subseteq fs[f].header)
          \/ ~fs[f].hasRow
          \/ \E c \in Required(f) : ~IsNumeric(fs[f].row[c])

\* The same, read off a log entry: the run exited with 0 and its seven
\* values were all there and numeric.
Succeeded(e) == e.rc = 0 /\ e.out # None /\ AllNumeric(e.out[1])

Last(seq) == seq[Len(seq)]

Calls == [k \in 1..Len(log) |-> log[k].args]

Keys(cmd) == { cmd[j].k : j \in 1..Len(cmd) }

HasParam(cmd, k, v) ==
    /\ \E j \in 1..Len(cmd) : cmd[j] = Param(k, v)
    /\ Cardinality({ j \in 1..Len(cmd) : cmd[j].k = k }) = 1

CountLabel(df, s) == Cardinality({ k \in 1..Len(df) : df[k].scenario = s })

IsRateRow(row, s, r) == row.scenario = s /\ row.attack_pps = r

CountRateRows(df, s, r) ==
    Cardinality({ k \in 1..Len(df) : IsRateRow(df[k], s, r) })

\* The invocations of a whole campaign, in declaration order.
RateCalls ==
    [k \in 1..(2 * Len(rates)) |->
        Args(TRUE, rates[(k + 1) \div 2],
             IF k % 2 = 1 THEN InsecLimit ELSE DefaultLimit)]

ExpectedCalls ==
    << Args(FALSE, DefaultRate, DefaultLimit),
       Args(TRUE, DefaultRate, InsecLimit),
       Args(TRUE, DefaultRate, DefaultLimit) >>
    \o RateCalls
    \o << Args(FALSE, DefaultRate, DefaultLimit) >>
    \o [k \in 1..Len(limits) |-> Args(TRUE, ThreshRate, limits[k])]

IsPrefix(s, t) == Len(s) <= Len(t) /\ \A k \in 1..Len(s) : s[k] = t[k]

\* Positions in the log: the baselines are invocations 1..3, the rate
\* sweep's pair for rates[j] follows, then the reference, then the
\* thresholds.
BaseAt(k) == k
InsecAt(j) == 3 + 2 * j - 1
SecAt(j) == 3 + 2 * j
RefAt == 3 + 2 * Len(rates) + 1
ThreshAt(j) == RefAt + j

BaseLabels == <<"RPL", "InsecRPL", "SecRPL">>

\* Every row of the three lists holds numbers only.
NumericTables ==
    /\ \A k \in 1..Len(records) : AllNumeric(records[k])
    /\ \A k \in 1..Len(combined) : AllNumeric(combined[k])
    /\ \A k \in 1..Len(collected) : AllNumeric(collected[k])

\* The row holds what parsing yields from the files as invocation n writes
\* them.
WrittenBy(row, n) ==
    \E o \in Outcomes \ {"exit1", "stale"} :
        /\ ~ParseRaises(SimRun(o, files, n))
        /\ Fields(row) = ParseRecord(SimRun(o, files, n))

\* The states in which a generator has just returned its table to main.
\* (The lists are not touched afterwards: each belongs to its generator.)
BaselinesReturn == "base" \in ret /\ Len(log) = BaseAt(3)
RateSweepReturns == "rate" \in ret /\ Len(log) = RefAt
ThresholdsReturn == "thresh" \in ret /\ pc = "save"

LabelPos(s) == CHOOSE k \in 1..3 : BaseLabels[k] = s

---------------------------------------------------------------------------
(* C1: execute_ns3 returns None in every failure condition of the run      *)
(* (non-zero exit; a result file missing, without a required column,       *)
(* without a data row, or with a value that is not a number), and returns  *)
(* a record only when its seven fields are numeric.                        *)
C1_FailureYieldsNone ==
    log # <<>> =>
        /\ FailureCondition(Last(log).rc, files) => out = None
        /\ out # None => AllNumeric(out[1])

---------------------------------------------------------------------------
(* C2: a failed run, whatever its cause, leaves the generator's list as it *)
(* was and raises nothing out of the generator.                            *)
C2_FailedRunLeavesTable ==
    [][ (Len(log') > Len(log) /\ FailureCondition(Last(log').rc, files'))
            => /\ records' = records
               /\ combined' = combined
               /\ collected' = collected
               /\ pc' # "crash" ]_vars

---------------------------------------------------------------------------
(* C3: whatever fails, the invocations of a campaign are the 22 expected   *)
(* ones, once each and in declaration order: the log is always a prefix of *)
(* the expected sequence and is the whole of it when the script ends.      *)
C3_FixedInvocationSequence ==
    /\ IsPrefix(Calls, ExpectedCalls)
    /\ Len(ExpectedCalls) = 22
    /\ (pc \in {"done", "crash"} /\ exc # "makedirs") => Calls = ExpectedCalls

---------------------------------------------------------------------------
(* C4: with attack disabled the command holds none of attackerPps,         *)
(* attackerPkt, threshold, whatever rate and limit were passed; with       *)
(* attack enabled it holds attackerPps, threshold and windowSec with the   *)
(* values passed and attackerPkt=120.                                      *)
C4_CommandParameters ==
    pc = "built" =>
        IF cfg.attack
        THEN /\ HasParam(command, "attackerPps", ToString(cfg.attack_rate))
             /\ HasParam(command, "attackerPkt", "120")
             /\ HasParam(command, "threshold", ToString(cfg.limit))
             /\ HasParam(command, "windowSec", FormatFloat(cfg.win))
             /\ HasParam(command, "attack", "true")
        ELSE /\ Keys(command) \cap {"attackerPps", "attackerPkt", "threshold"} = {}
             /\ HasParam(command, "attack", "false")

\* An attack-disabled command built from a rate and a limit that are not
\* the defaults.
C4_Witness ==
    /\ pc = "built"
    /\ ~cfg.attack
    /\ cfg.attack_rate = 1100
    /\ cfg.limit = 999999999
    /\ command # <<>>

---------------------------------------------------------------------------
---------------------------------------------------------------------------
(* C6: for N rates the table gather_attack_variants returns has at most 3N *)
(* rows: per rate at most one InsecRPL and one SecRPL row, annotated with  *)
(* the rate of the run it came from, and 0 or N RPL rows, one per rate,    *)
(* all carrying the seven values of the one attack-disabled run.           *)
C6_RateTable ==
    RateSweepReturns =>
        LET N == Len(rates)
            df == rate_df
            nRPL == CountLabel(df, "RPL")
        IN  /\ Len(df) <= 3 * N
            /\ \A k \in 1..Len(df) :
                  /\ df[k].scenario \in {"RPL", "InsecRPL", "SecRPL"}
                  /\ \E j \in 1..N : df[k].attack_pps = rates[j]
            /\ \A j \in 1..N :
                  /\ CountRateRows(df, "InsecRPL", rates[j]) <= 1
                  /\ CountRateRows(df, "SecRPL", rates[j]) <= 1
                  /\ \A k \in 1..Len(df) :
                        /\ IsRateRow(df[k], "InsecRPL", rates[j]) =>
                              /\ log[InsecAt(j)].out = << Fields(df[k]) >>
                              /\ log[InsecAt(j)].args.attack_rate = rates[j]
                        /\ IsRateRow(df[k], "SecRPL", rates[j]) =>
                              /\ log[SecAt(j)].out = << Fields(df[k]) >>
                              /\ log[SecAt(j)].args.attack_rate = rates[j]
            /\ nRPL \in {0, N}
            /\ nRPL = N =>
                  /\ ~log[RefAt].args.attack
                  /\ \A j \in 1..N : CountRateRows(df, "RPL", rates[j]) = 1
                  /\ \A k \in 1..Len(df) :
                        df[k].scenario = "RPL" =>
                            << Fields(df[k]) >> = log[RefAt].out
            /\ nRPL = 0 <=> log[RefAt].out = None

\* gather_attack_variants has returned a full table: 3N rows, N of them
\* copies of the reference run.
C6_Witness ==
    /\ RateSweepReturns
    /\ Len(rate_df) = 3 * Len(rates)
    /\ CountLabel(rate_df, "RPL") = Len(rates)

---------------------------------------------------------------------------
(* C7: for M thresholds the table gather_threshold_tests returns has at    *)
(* most M rows, all SecRPL, at most one per threshold and in declaration   *)
(* order, each annotated with the threshold passed to the run it came      *)
(* from; a threshold has a row exactly when its run succeeded.             *)
C7_ThresholdTable ==
    ThresholdsReturn =>
        LET M == Len(limits)
            df == thresh_df
            At(k) == CHOOSE j \in 1..M : limits[j] = df[k].threshold
        IN  /\ Len(df) <= M
            /\ \A k \in 1..Len(df) :
                  /\ df[k].scenario = "SecRPL"
                  /\ \E j \in 1..M : limits[j] = df[k].threshold
                  /\ log[ThreshAt(At(k))].args.limit = df[k].threshold
                  /\ log[ThreshAt(At(k))].out = << Fields(df[k]) >>
            /\ \A a, b \in 1..Len(df) : a < b => At(a) < At(b)
            /\ \A j \in 1..M :
                  (\E k \in 1..Len(df) : df[k].threshold = limits[j])
                      <=> Succeeded(log[ThreshAt(j)])

---------------------------------------------------------------------------
(* C8: if the root directory, the scratch directory or dioneighbour.cc is  *)
(* absent at the start, the script stops with a report of that very item,  *)
(* before any invocation and before any output is written.  (Stated for    *)
(* the runs in which makedirs itself raises nothing.)                      *)
C8_PreconditionCheck ==
    LET absent == ~root_at_start \/ ~scratch \/ ~code_file
        item == IF ~root_at_start THEN "root"
                ELSE IF ~scratch THEN "scratch" ELSE "code"
    IN  /\ absent => log = <<>> /\ saved = {}
        /\ (absent /\ exc # "makedirs" /\ pc \notin {"module", "main"}) =>
              /\ pc \in {"exit", "returned"}
              /\ report = item

---------------------------------------------------------------------------
(* C9: whatever tables the generators return (any runs failed, tables     *)
(* empty or without an RPL, InsecRPL or SecRPL row), make_graphs,          *)
(* make_comparison_chart and summarize_results complete without raising.   *)
(* Stated for the tables whose rows hold numbers only, as the rows of      *)
(* successful runs do.                                                     *)
C9_PostProcessingCompletes ==
    NumericTables =>
        exc \notin {"make_graphs", "make_comparison_chart", "summarize_results"}

---------------------------------------------------------------------------
(* C10: every row of a table carries the values parsed from the files as   *)
(* written by the invocation of the row's own configuration: an invocation *)
(* that exits with 0 without rewriting the files yields no row.            *)
C10_RowsCarryOwnValues ==
    /\ \A k \in 1..Len(records) :
          WrittenBy(records[k], BaseAt(LabelPos(records[k].scenario)))
    /\ \A k \in 1..Len(combined) : \A j \in 1..Len(rates) :
          combined[k].attack_pps = rates[j] =>
              WrittenBy(combined[k],
                        CASE combined[k].scenario = "InsecRPL" -> InsecAt(j)
                          [] combined[k].scenario = "SecRPL" -> SecAt(j)
                          [] combined[k].scenario = "RPL" -> RefAt)
    /\ \A k \in 1..Len(collected) : \A j \in 1..Len(limits) :
          collected[k].threshold = limits[j] =>
              WrittenBy(collected[k], ThreshAt(j))

====
